---- MODULE Spec2Model ----
(***************************************************************************)
(* A model of utils/raster_processing.py: resample_raster(da,              *)
(* target_resolution, method).                                             *)
(*                                                                         *)
(* Coordinates and resolutions are binary floating-point numbers.  They    *)
(* are modelled in a small IEEE-style format: a number is an integer       *)
(* count of units of 2^-Precision, and it is representable when its        *)
(* magnitude has at most Precision significant bits.  Every arithmetic     *)
(* operation on coordinates rounds its exact result to the nearest         *)
(* representable number, ties to even, as float64 does with 53 bits.       *)
(* Cell values are kept as exact rationals <<numerator, denominator>>;     *)
(* <<0, 0>> is NaN.                                                        *)
(***************************************************************************)
EXTENDS Integers, Sequences, FiniteSets

VARIABLES da, target_resolution, method, pc, lon_res, lat_res, lon_factor,
          lat_factor, new_lons, new_lats, da_resampled, error, da0,
          values_read

vars == <<da, target_resolution, method, pc, lon_res, lat_res, lon_factor,
          lat_factor, new_lons, new_lats, da_resampled, error, da0,
          values_read>>

(* ------------------------------ bounds -------------------------------- *)

\* Significant bits of the floating-point format (53 in float64).
Precision == 3

\* Longest coordinate axis of an input raster.
MaxLen == 3

\* Largest positive target step, in units.
MaxTarget == 14

\* Largest magnitude of a negative target step, in units.
MaxNegTarget == 3

(* ------------------------ floating-point numbers ---------------------- *)

Abs(n) == IF n < 0 THEN -n ELSE n

\* The number 1.0, in units.
One == 2 ^ Precision

\* Distance between neighbouring representable numbers at magnitude m.
RECURSIVE Spacing(_)
Spacing(m) == IF m < 2 ^ Precision THEN 1 ELSE 2 * Spacing(m \div 2)

Representable(n) == Abs(n) % Spacing(Abs(n)) = 0

\* num / den (num >= 0, den > 0) rounded to nearest, ties to even.
RoundPos(num, den) ==
    LET fl == num \div den
        sp == Spacing(fl)
        lo == (fl \div sp) * sp
        hi == lo + sp
    IN  IF 2 * num < (lo + hi) * den THEN lo
        ELSE IF 2 * num > (lo + hi) * den THEN hi
        ELSE IF (lo \div sp) % 2 = 0 THEN lo ELSE hi

\* num / den (den > 0) rounded to a representable number.
Round(num, den) ==
    IF num < 0 THEN -RoundPos(-num, den) ELSE RoundPos(num, den)

FAdd(a, b) == Round(a + b, 1)
FSub(a, b) == Round(a - b, 1)
FDiv(a, b) == IF b < 0 THEN Round((-a) * One, -b) ELSE Round(a * One, b)

\* int(x) replaced by rounding to the nearest integer.
Trunc_Nearest(x) ==
    IF x < 0 THEN -((-x + One \div 2) \div One) ELSE (x + One \div 2) \div One

\* int(x): truncation toward zero.
Trunc(x) == IF x < 0 THEN -((-x) \div One) ELSE x \div One

\* ceil(x) as an integer.
Ceil(x) == IF x < 0 THEN -((-x) \div One) ELSE (x + One - 1) \div One

\* k * x with k an exact integer, rounded once.
FScale(k, x) == Round(k * x, 1)

\* x / k with k an exact positive integer, rounded once.
FDivInt(x, k) == Round(x, k)

\* Left-to-right floating-point sum of a sequence.
RECURSIVE FSum(_)
FSum(s) == IF Len(s) = 0 THEN 0
           ELSE FAdd(FSum(SubSeq(s, 1, Len(s) - 1)), s[Len(s)])

(* --------------------------- exact cell values ------------------------ *)

RECURSIVE GCD(_, _)
GCD(a, b) == IF b = 0 THEN a ELSE GCD(b, a % b)

NaN == <<0, 0>>

\* The rational n / d (d > 0) in lowest terms.
Rat(n, d) == LET g == GCD(Abs(n), d) IN <<n \div g, d \div g>>

RAdd(x, y) == Rat(x[1] * y[2] + y[1] * x[2], x[2] * y[2])

RECURSIVE RSum(_, _)
RSum(f, S) == IF S = {} THEN <<0, 1>>
              ELSE LET p == CHOOSE q \in S : TRUE
                   IN  RAdd(f[p], RSum(f, S \ {p}))

(* ---------------------- da.coarsen(...).mean() ------------------------ *)

\* Indices of block i (1-based) of windows of `window` cells.
Block(i, window) == ((i - 1) * window + 1) .. (i * window)

\* A block loop that stops one cell early and so misses a last full window.
NumBlocks_DropLast(size, window) == (size - 1) \div window

\* Number of complete windows along an axis of `size` cells (boundary="trim").
NumBlocks(size, window) == size \div window

\* Coordinate of each window: the mean of the window's coordinates.
CoarsenCoord(axis, window) ==
    [i \in 1..NumBlocks(Len(axis), window) |->
        FDivInt(FSum(SubSeq(axis, (i - 1) * window + 1, i * window)), window)]

\* A mean taken along lon only, over the first lat cell of the window.
BlockMean_LonOnly(vals, i, j, lon_window, lat_window) ==
    LET cells == Block(i, lon_window) \X {(j - 1) * lat_window + 1}
        total == RSum(vals, cells)
    IN  Rat(total[1], total[2] * lon_window)

\* Mean of the cells of window (i, j).
BlockMean(vals, i, j, lon_window, lat_window) ==
    LET cells == Block(i, lon_window) \X Block(j, lat_window)
        total == RSum(vals, cells)
    IN  Rat(total[1], total[2] * lon_window * lat_window)

Coarsen(d, lon_window, lat_window) ==
    LET nlon == NumBlocks(Len(d.lon), lon_window)
        nlat == NumBlocks(Len(d.lat), lat_window)
    IN  [lon  |-> CoarsenCoord(d.lon, lon_window),
         lat  |-> CoarsenCoord(d.lat, lat_window),
         vals |-> [p \in (1..nlon) \X (1..nlat) |->
                     BlockMean(d.vals, p[1], p[2], lon_window, lat_window)],
         grid |-> TRUE]

(* ----------------------------- np.arange ------------------------------ *)

SeqMin(s) == CHOOSE x \in {s[i] : i \in 1..Len(s)} :
                 \A i \in 1..Len(s) : x <= s[i]
SeqMax(s) == CHOOSE x \in {s[i] : i \in 1..Len(s)} :
                 \A i \in 1..Len(s) : x >= s[i]

\* Number of elements: ceil((stop - start) / step), none when that is <= 0.
ArangeLen(start, stop, step) ==
    LET n == Ceil(FDiv(FSub(stop, start), step)) IN IF n > 0 THEN n ELSE 0

\* Element k (0-based): start, start + step, then start + k * delta with
\* delta = (start + step) - start.
ArangeElem(start, step, k) ==
    LET next  == FAdd(start, step)
        delta == FSub(next, start)
    IN  IF k = 0 THEN start
        ELSE IF k = 1 THEN next
        ELSE FAdd(start, FScale(k, delta))

Arange(start, stop, step) ==
    [k \in 1..ArangeLen(start, stop, step) |-> ArangeElem(start, step, k - 1)]

(* ------------------------------ da.interp ----------------------------- *)

\* The positions of an axis in ascending coordinate order (interp sorts
\* the raster by its coordinates first).
SortedIdx(axis) ==
    [r \in 1..Len(axis) |->
        CHOOSE i \in 1..Len(axis) :
            Cardinality({j \in 1..Len(axis) : axis[j] < axis[i]}) = r - 1]

SortedAxis(axis) == [r \in 1..Len(axis) |-> axis[SortedIdx(axis)[r]]]

InBounds(xs, x) == xs[1] <= x /\ x <= xs[Len(xs)]

\* Left end of the cell of the ascending axis xs that holds x.
Locate(xs, x) ==
    LET below == {i \in 1..(Len(xs) - 1) : xs[i] <= x}
    IN  CHOOSE i \in below : \A k \in below : k <= i

\* The weight measured from the wrong end of the cell.
RightWeight_FromRight(x, lo, hi) == hi - x

\* Distance of x from the left end lo of its cell [lo, hi]: the weight of
\* the right end's value, as a multiple of 1 / (hi - lo).
RightWeight(x, lo, hi) == x - lo

\* Bilinear interpolation at (x, y); NaN outside the axes' bounds.
InterpPoint(d, x, y) ==
    LET xs == SortedAxis(d.lon)
        ys == SortedAxis(d.lat)
        px == SortedIdx(d.lon)
        py == SortedIdx(d.lat)
    IN  IF ~(InBounds(xs, x) /\ InBounds(ys, y)) THEN NaN
        ELSE LET i  == Locate(xs, x)
                 j  == Locate(ys, y)
                 dx == xs[i + 1] - xs[i]
                 dy == ys[j + 1] - ys[j]
                 ax == RightWeight(x, xs[i], xs[i + 1])
                 ay == RightWeight(y, ys[j], ys[j + 1])
                 v(a, b) == d.vals[<<px[a], py[b]>>]
                 w(val, k) == <<val[1] * k, val[2] * dx * dy>>
             IN  RAdd(RAdd(w(v(i, j), (dx - ax) * (dy - ay)),
                           w(v(i + 1, j), ax * (dy - ay))),
                      RAdd(w(v(i, j + 1), (dx - ax) * ay),
                           w(v(i + 1, j + 1), ax * ay)))

Interp(d, lons, lats) ==
    [lon  |-> lons,
     lat  |-> lats,
     vals |-> [p \in (1..Len(lons)) \X (1..Len(lats)) |->
                 InterpPoint(d, lons[p[1]], lats[p[2]])],
     grid |-> TRUE]

(* ------------------------------- inputs ------------------------------- *)

\* Coordinates the input axes are built from, in units.
AxisVals == {n \in {-3, 0, 1, 3, 8, 12} : Representable(n)}

StrictlyMonotonic(s) ==
    \/ \A i \in 1..(Len(s) - 1) : s[i] < s[i + 1]
    \/ \A i \in 1..(Len(s) - 1) : s[i] > s[i + 1]

\* Every strictly monotonic axis (ascending or descending) of 2..MaxLen points.
Axes == {s \in UNION {[1..n -> AxisVals] : n \in 2..MaxLen} :
            StrictlyMonotonic(s)}

Targets == {t \in (-MaxNegTarget)..MaxTarget : t # 0 /\ Representable(t)}

\* A few reference axes and steps for the axis that is not explored in depth.
RefAxes == {<<0, 1>>, <<1, 0>>, <<0, 1, 2>>, <<0, 1, 2, 3>>}
RefTargets == {1, 2, -1}

\* <<lon, lat, target_lon, target_lat>>: one axis ranges over every axis and
\* step, the other over the reference ones; either axis can be the deep one,
\* and both can be reference axes.
Inputs ==
    (Axes \X RefAxes \X Targets \X RefTargets)
        \cup (RefAxes \X Axes \X RefTargets \X Targets)
        \cup (RefAxes \X RefAxes \X RefTargets \X RefTargets)

Patterns == {"flat", "varied"}

\* Cell values: all equal, or the square of the cell's number.
Grid(nlon, nlat, pattern) ==
    [p \in (1..nlon) \X (1..nlat) |->
        IF pattern = "flat" THEN <<3, 1>>
        ELSE <<((p[1] - 1) * nlat + p[2]) * ((p[1] - 1) * nlat + p[2]), 1>>]

(* ------------------------------- state -------------------------------- *)

Methods == {"downsample", "upsample", "nearest"}

NoGrid == [lon |-> <<>>, lat |-> <<>>, vals |-> <<>>, grid |-> FALSE]

Init ==
    /\ \E inp \in Inputs, pattern \in Patterns :
          /\ da = [lon |-> inp[1], lat |-> inp[2],
                   vals |-> Grid(Len(inp[1]), Len(inp[2]), pattern)]
          /\ target_resolution = <<inp[3], inp[4]>>
    /\ method \in Methods
    /\ pc = "start"
    /\ lon_res = 0
    /\ lat_res = 0
    /\ lon_factor = 0
    /\ lat_factor = 0
    /\ new_lons = <<>>
    /\ new_lats = <<>>
    /\ da_resampled = NoGrid
    /\ error = "none"
    /\ da0 = da
    /\ values_read = FALSE

\* A library call that trims its receiver in place.
Receiver_InPlace(d) ==
    [d EXCEPT !.lon = SubSeq(d.lon, 1, Len(d.lon) - 1),
              !.vals = [p \in (1..(Len(d.lon) - 1)) \X (1..Len(d.lat)) |->
                           d.vals[p]]]

\* The raster after a library call on it: coarsen and interp build a new
\* object and leave their receiver as it was.
Receiver(d) == d

\* A dispatch whose last branch is taken as 'upsample'.
Branch_DefaultUpsample(m) ==
    IF m = "downsample" THEN "downsample" ELSE "upsample"

\* The branch of lines 26, 37 and 49 taken for a method string.
Branch(m) == IF m = "downsample" THEN "downsample"
             ELSE IF m = "upsample" THEN "upsample"
             ELSE "else"

\* Lines 20-21: the current step of an axis, axis[1] - axis[0] (0-based).
Step(axis) == FSub(axis[2], axis[1])

\* Lines 20-24: the current steps, from the first two points of each axis.
GetResolution ==
    /\ pc = "start"
    /\ lon_res' = Step(da.lon)
    /\ lat_res' = Step(da.lat)
    /\ pc' = "dispatch"
    /\ UNCHANGED <<da, target_resolution, method, lon_factor, lat_factor,
                   new_lons, new_lats, da_resampled, error, da0, values_read>>

\* A factor computed from the magnitude of the current step.
Factor_AbsStep(target, res) == Trunc(FDiv(target, Abs(res)))

\* int(target / res)
Factor(target, res) == Trunc(FDiv(target, res))

\* Lines 26-29: method == 'downsample', the coarsening factors.
ComputeFactors ==
    /\ pc = "dispatch"
    /\ Branch(method) = "downsample"
    /\ lon_factor' = Factor(target_resolution[1], lon_res)
    /\ lat_factor' = Factor(target_resolution[2], lat_res)
    /\ pc' = "check"
    /\ UNCHANGED <<da, target_resolution, method, lon_res, lat_res,
                   new_lons, new_lats, da_resampled, error, da0, values_read>>

\* A check that refuses only when both factors are below 1.
TooFine_Both(flon, flat) == flon < 1 /\ flat < 1

\* Line 31: the condition under which downsampling is refused.
TooFine(flon, flat) == flon < 1 \/ flat < 1

\* Lines 31-32: raise ValueError("Target resolution must be larger ...").
RaiseInvalidResolution ==
    /\ pc = "check"
    /\ TooFine(lon_factor, lat_factor)
    /\ error' = "InvalidResolution"
    /\ pc' = "raised"
    /\ UNCHANGED <<da, target_resolution, method, lon_res, lat_res,
                   lon_factor, lat_factor, new_lons, new_lats, da_resampled,
                   da0, values_read>>

\* Lines 35 and 52: coarsen with boundary="trim", mean, return.
CoarsenMean ==
    /\ pc = "check"
    /\ ~TooFine(lon_factor, lat_factor)
    /\ da_resampled' = Coarsen(da, lon_factor, lat_factor)
    /\ da' = Receiver(da)
    /\ values_read' = TRUE
    /\ pc' = "returned"
    /\ UNCHANGED <<target_resolution, method, lon_res, lat_res, lon_factor,
                   lat_factor, new_lons, new_lats, error, da0>>

\* Lines 37-44: method == 'upsample', the new coordinates.
NewCoords ==
    /\ pc = "dispatch"
    /\ Branch(method) = "upsample"
    /\ new_lons' = Arange(SeqMin(da.lon), SeqMax(da.lon), target_resolution[1])
    /\ new_lats' = Arange(SeqMin(da.lat), SeqMax(da.lat), target_resolution[2])
    /\ pc' = "interp"
    /\ UNCHANGED <<da, target_resolution, method, lon_res, lat_res,
                   lon_factor, lat_factor, da_resampled, error, da0,
                   values_read>>

\* Lines 47 and 52: interpolate at the new coordinates, return.
Interpolate ==
    /\ pc = "interp"
    /\ da_resampled' = Interp(da, new_lons, new_lats)
    /\ da' = Receiver(da)
    /\ values_read' = TRUE
    /\ pc' = "returned"
    /\ UNCHANGED <<target_resolution, method, lon_res, lat_res, lon_factor,
                   lat_factor, new_lons, new_lats, error, da0>>

\* Lines 49-50: raise ValueError("Method must be 'downsample' or 'upsample'.").
RaiseInvalidMethod ==
    /\ pc = "dispatch"
    /\ Branch(method) = "else"
    /\ error' = "InvalidMethod"
    /\ pc' = "raised"
    /\ UNCHANGED <<da, target_resolution, method, lon_res, lat_res,
                   lon_factor, lat_factor, new_lons, new_lats, da_resampled,
                   da0, values_read>>

Next ==
    \/ GetResolution
    \/ ComputeFactors
    \/ RaiseInvalidResolution
    \/ CoarsenMean
    \/ NewCoords
    \/ Interpolate
    \/ RaiseInvalidMethod

Spec == Init /\ [][Next]_vars

(* ------------------------------ properties ---------------------------- *)

Done == pc \in {"returned", "raised"}

Ascending(axis) == \A i \in 1..(Len(axis) - 1) : axis[i] < axis[i + 1]
Descending(axis) == \A i \in 1..(Len(axis) - 1) : axis[i] > axis[i + 1]

PositiveTargets == target_resolution[1] > 0 /\ target_resolution[2] > 0

\* The call ended in the given error and produced no grid.
RaisedWith(kind) ==
    /\ pc = "raised"
    /\ error = kind
    /\ da_resampled = NoGrid

\* C1: downsampling with target step = f * current step, for integers
\* f_lon, f_lat >= 1, returns a grid of floor(len(lon) / f_lon) by
\* floor(len(lat) / f_lat) cells.
C1_DownsampleShape ==
    \A f_lon, f_lat \in 1..MaxTarget :
        ( /\ method = "downsample"
          /\ Done
          /\ target_resolution[1] = FScale(f_lon, Step(da.lon))
          /\ target_resolution[2] = FScale(f_lat, Step(da.lat)) )
        => /\ pc = "returned"
           /\ Len(da_resampled.lon) = Len(da.lon) \div f_lon
           /\ Len(da_resampled.lat) = Len(da.lat) \div f_lat

\* C2: downsampling with a positive target step smaller than the current
\* step (in magnitude, hence also as a signed number) on at least one axis
\* ends in InvalidResolution with no grid; the error is raised whenever
\* either factor is below 1, and before any grid value is aggregated.
C2_TooFineRaises ==
    /\ ( /\ method = "downsample"
         /\ Done
         /\ PositiveTargets
         /\ \/ target_resolution[1] < Abs(Step(da.lon))
            \/ target_resolution[2] < Abs(Step(da.lat)) )
       => RaisedWith("InvalidResolution")
    /\ (method = "downsample" /\ Done /\ (lon_factor < 1 \/ lat_factor < 1))
       => RaisedWith("InvalidResolution")
    /\ error = "InvalidResolution" => ~values_read

\* C2's case: only the lat step is too fine, the lon step is coarse enough.
C2_Witness ==
    /\ RaisedWith("InvalidResolution")
    /\ PositiveTargets
    /\ target_resolution[1] >= Step(da.lon)
    /\ Step(da.lon) > 0
    /\ target_resolution[2] < Step(da.lat)
    /\ lon_factor >= 1

\* C3: a method that is neither 'downsample' nor 'upsample' ends in
\* InvalidMethod with no grid; no grid value is read or modified and no
\* aggregation or interpolation step is ever entered.
C3_InvalidMethodRaises ==
    method \notin {"downsample", "upsample"}
    => /\ pc \in {"start", "dispatch", "raised"}
       /\ Done => RaisedWith("InvalidMethod")
       /\ pc = "dispatch" => ENABLED RaiseInvalidMethod
       /\ ~values_read
       /\ da_resampled = NoGrid
       /\ da = da0
       /\ lon_factor = 0 /\ lat_factor = 0
       /\ new_lons = <<>> /\ new_lats = <<>>

C3_Witness == method = "nearest" /\ RaisedWith("InvalidMethod")

\* C10: with a descending lon or lat axis, downsampling to any positive
\* target steps ends in InvalidResolution; it returns a grid for positive
\* target steps only when both axes are ascending.
C10_DescendingRaises ==
    /\ ( /\ method = "downsample"
         /\ Done
         /\ PositiveTargets
         /\ (Descending(da.lon) \/ Descending(da.lat)) )
       => RaisedWith("InvalidResolution")
    /\ (method = "downsample" /\ pc = "returned" /\ PositiveTargets)
       => (Ascending(da.lon) /\ Ascending(da.lat))

\* C10's case: a descending lon axis and a target many cells wide.
C10_Witness ==
    /\ RaisedWith("InvalidResolution")
    /\ Descending(da.lon)
    /\ Ascending(da.lat)
    /\ target_resolution[1] >= 2 * Abs(Step(da.lon))
    /\ target_resolution[2] >= Step(da.lat)

\* Sum of the numerators of the (integer) cell values of a set of cells.
RECURSIVE TotalOf(_, _)
TotalOf(vals, cells) ==
    IF cells = {} THEN 0
    ELSE LET c == CHOOSE q \in cells : TRUE
         IN  vals[c][1] + TotalOf(vals, cells \ {c})

\* The input cells whose 0-based index divided by the factor gives the
\* 0-based index of output cell p, on both axes.
CellsOf(p) ==
    {c \in DOMAIN da.vals :
        /\ (c[1] - 1) \div lon_factor = p[1] - 1
        /\ (c[2] - 1) \div lat_factor = p[2] - 1}

HalfOpenRange(lo, hi, step) ==
    LET n == Cardinality({k \in 0..(hi - lo) :
                             FAdd(lo, FScale(k, step)) < hi})
    IN  [k \in 1..n |-> FAdd(lo, FScale(k - 1, step))]

\* C5: with 'upsample' and positive target steps, each new axis is the
\* sequence min + k * target_step restricted to the values strictly below
\* max, so every new point lies in [min, max).
C5_NewAxesHalfOpen ==
    (method = "upsample" /\ pc \in {"interp", "returned"} /\ PositiveTargets)
    => /\ \A k \in 1..Len(new_lons) :
              SeqMin(da.lon) <= new_lons[k] /\ new_lons[k] < SeqMax(da.lon)
       /\ \A k \in 1..Len(new_lats) :
              SeqMin(da.lat) <= new_lats[k] /\ new_lats[k] < SeqMax(da.lat)
       /\ new_lons = HalfOpenRange(SeqMin(da.lon), SeqMax(da.lon),
                                   target_resolution[1])
       /\ new_lats = HalfOpenRange(SeqMin(da.lat), SeqMax(da.lat),
                                   target_resolution[2])

AxisValues(axis) == {axis[i] : i \in 1..Len(axis)}

\* The input value at the point (x, y) of the original axes.
ValueAt(x, y) ==
    da.vals[<<CHOOSE i \in 1..Len(da.lon) : da.lon[i] = x,
              CHOOSE j \in 1..Len(da.lat) : da.lat[j] = y>>]

SameStepUpsample ==
    /\ method = "upsample"
    /\ pc = "returned"
    /\ target_resolution[1] = Step(da.lon)
    /\ target_resolution[2] = Step(da.lat)

SameStepDownsample ==
    /\ method = "downsample"
    /\ Done
    /\ target_resolution[1] = Step(da.lon)
    /\ target_resolution[2] = Step(da.lat)

\* C7: downsampling with target step = current step on both axes returns
\* the original grid: same lon and lat coordinates, same shape, same values.
C7_FactorOneIdentity ==
    SameStepDownsample
    => /\ pc = "returned"
       /\ lon_factor = 1 /\ lat_factor = 1
       /\ da_resampled.lon = da.lon
       /\ da_resampled.lat = da.lat
       /\ da_resampled.vals = da.vals

\* C7's case: a 3 x 3 grid of distinct values returned by such a call.
C7_Witness ==
    /\ SameStepDownsample
    /\ pc = "returned"
    /\ Len(da.lon) = 3 /\ Len(da.lat) = 3
    /\ da.vals[<<1, 1>>] # da.vals[<<3, 3>>]

\* C8: the input raster (lon, lat and every cell value) is the same in every
\* state of a call as when the call began, whatever the call ends in.
C8_InputUnchanged == da = da0

\* C8's case: a call that returned a grid different from its input.
C8_Witness ==
    /\ pc = "returned"
    /\ da_resampled.vals # da.vals
    /\ da = da0

\* The factor k of an ascending axis and a positive target is the largest
\* integer with k * step <= target.
LargestFit(axis, target, k) ==
    k * Step(axis) <= target /\ (k + 1) * Step(axis) > target

\* k is the float quotient q truncated toward zero.
TruncatedQuotient(q, k) ==
    IF q >= 0 THEN k * One <= q /\ q < (k + 1) * One
    ELSE k <= 0 /\ (-k) * One <= -q /\ -q < (1 - k) * One

\* The blocks along an axis have k cells: as many complete blocks as fit.
BlocksOf(axis, out, k) ==
    Len(out) * k <= Len(axis) /\ Len(axis) < (Len(out) + 1) * k

FactorsComputed ==
    method = "downsample" /\ pc \in {"check", "returned", "raised"}

\* C9 as stated: each factor is target_step / current_step truncated toward
\* zero; so for an ascending axis and a positive target step that is not an
\* integer multiple of the current step it is the largest k with
\* k * current_step <= target_step; the blocks have that many cells.
C9_LargestFitWhenNotMultiple ==
    FactorsComputed
    => /\ TruncatedQuotient(FDiv(target_resolution[1], Step(da.lon)),
                            lon_factor)
       /\ TruncatedQuotient(FDiv(target_resolution[2], Step(da.lat)),
                            lat_factor)
       /\ ( /\ Ascending(da.lon)
            /\ target_resolution[1] > 0
            /\ target_resolution[1] % Step(da.lon) # 0 )
          => LargestFit(da.lon, target_resolution[1], lon_factor)
       /\ ( /\ Ascending(da.lat)
            /\ target_resolution[2] > 0
            /\ target_resolution[2] % Step(da.lat) # 0 )
          => LargestFit(da.lat, target_resolution[2], lat_factor)
       /\ pc = "returned"
          => /\ BlocksOf(da.lon, da_resampled.lon, lon_factor)
             /\ BlocksOf(da.lat, da_resampled.lat, lat_factor)

\* C9 amended: each factor is the floating-point quotient
\* target_step / current_step truncated toward zero; for an ascending axis
\* and a positive target step whose floating-point quotient is not an
\* integer it is the largest k with k * current_step <= target_step; the
\* blocks have that many cells.
C9_LargestFitWhenQuotientFractional ==
    FactorsComputed
    => /\ TruncatedQuotient(FDiv(target_resolution[1], Step(da.lon)),
                            lon_factor)
       /\ TruncatedQuotient(FDiv(target_resolution[2], Step(da.lat)),
                            lat_factor)
       /\ ( /\ Ascending(da.lon)
            /\ target_resolution[1] > 0
            /\ FDiv(target_resolution[1], Step(da.lon)) % One # 0 )
          => LargestFit(da.lon, target_resolution[1], lon_factor)
       /\ ( /\ Ascending(da.lat)
            /\ target_resolution[2] > 0
            /\ FDiv(target_resolution[2], Step(da.lat)) % One # 0 )
          => LargestFit(da.lat, target_resolution[2], lat_factor)
       /\ pc = "returned"
          => /\ BlocksOf(da.lon, da_resampled.lon, lon_factor)
             /\ BlocksOf(da.lat, da_resampled.lat, lat_factor)

\* C9's case: a target between two and three lon steps, aggregated in
\* blocks of two cells.
C9_Witness ==
    /\ method = "downsample"
    /\ pc = "returned"
    /\ Ascending(da.lon)
    /\ target_resolution[1] > 2 * Step(da.lon)
    /\ target_resolution[1] < 3 * Step(da.lon)
    /\ FDiv(target_resolution[1], Step(da.lon)) % One # 0
    /\ lon_factor = 2
    /\ Len(da_resampled.lon) = 1
====
